---- MODULE Spec2Model ----
(***************************************************************************)
(* road_following/train_model.ipynb: the XYDataset sampler, the 90/10      *)
(* split, the data loaders and the 50-epoch training loop that keeps the   *)
(* checkpoint of the best test loss.                                       *)
(*                                                                         *)
(* Numbers.  Targets are exact rationals <<numerator, denominator>>.       *)
(* Losses are rationals too, counted in units of 5e8, so that the initial  *)
(* best_loss of 1e9 is the integer 2 and loss values below, at and above   *)
(* it are all small integers.                                              *)
(***************************************************************************)
EXTENDS Integers, Sequences, FiniteSets

\* ------------------------------------------------------------------ bounds
MaxN == 18            \* largest dataset size of the training-loop runs
MaxLoss == 3          \* largest test-batch loss (units of 5e8)
MaxTrainLoss == 1     \* largest train-batch loss (units of 5e8)
MaxTest == 17         \* largest test-subset size of the evaluation runs
MaxSplitN == 21       \* largest dataset size of the split runs
MaxFiles == 1         \* largest directory listing of the sampler runs
ImgWidth == 2         \* pixels per image row of the sampler runs

\* ------------------------------------------------------- program constants
NUM_EPOCHS == 50
BATCH_SIZE == 16
InitialBestLoss == 2  \* best_loss = 1e9, in units of 5e8
test_percent == <<1, 10>>   \* 0.1

VARIABLES
    \* directory listing and sampler (XYDataset)
    image_paths, images, random_hflips,
    item_status, item_idx, item_flipped, item_staged, item_image, item_target,
    \* split
    len_dataset, num_train, num_test, train_dataset, test_dataset,
    \* training loop
    pc, epoch, batch_i, bad_batch, malformed,
    train_loss, test_loss, best_loss, params, file, console, done_line,
    \* history: bookkeeping for the properties, never read by the program
    saved_epoch, prior_min, min_params, pass_params, sample_sum

samplerVars == <<image_paths, images, random_hflips, item_status, item_idx,
                 item_flipped, item_staged, item_image, item_target>>
splitVars == <<len_dataset, num_train, num_test, train_dataset, test_dataset>>
loopVars == <<pc, epoch, batch_i, bad_batch, malformed, train_loss, test_loss,
              best_loss, params, file, console, done_line>>
historyVars == <<saved_epoch, prior_min, min_params, pass_params, sample_sum>>
vars == <<samplerVars, splitVars, loopVars, historyVars>>

\* ------------------------------------------------------------- arithmetic
RatLess(a, b) == a[1] * b[2] < b[1] * a[2]
RatEq(a, b) == a[1] * b[2] = b[1] * a[2]
Neg(r) == <<0 - r[1], r[2]>>
Min2(a, b) == IF a < b THEN a ELSE b

\* ---------------------------------------------------------------- sampler
\* Strings are sequences of one-character strings.
Digits == {"0", "1", "2", "3", "4", "5", "6", "7", "8", "9"}
DigitVal(c) ==
    CASE c = "0" -> 0 [] c = "1" -> 1 [] c = "2" -> 2 [] c = "3" -> 3 [] c = "4" -> 4
      [] c = "5" -> 5 [] c = "6" -> 6 [] c = "7" -> 7 [] c = "8" -> 8 [] c = "9" -> 9

\* s[a:b] of Python for 0 <= a <= b: positions past the end are dropped
PySlice(s, a, b) == SubSeq(s, a + 1, Min2(b, Len(s)))

\* os.path.basename: what follows the last "/"
LastSlash(p) ==
    LET at == {i \in 1..Len(p) : p[i] = "/"}
    IN IF at = {} THEN 0 ELSE CHOOSE i \in at : \A j \in at : j <= i
Basename(p) == SubSeq(p, LastSlash(p) + 1, Len(p))

\* int(s) of Python on a string: surrounding blanks are dropped, one sign may
\* lead, and what is left must be digits, single underscores allowed between
\* two digits.  [ok |-> FALSE] stands for the ValueError.
RECURSIVE StripLeft(_)
StripLeft(s) == IF s # <<>> /\ Head(s) = " " THEN StripLeft(Tail(s)) ELSE s
RECURSIVE StripRight(_)
StripRight(s) ==
    IF s # <<>> /\ s[Len(s)] = " " THEN StripRight(SubSeq(s, 1, Len(s) - 1)) ELSE s
DigitsOk(s) ==
    /\ s # <<>>
    /\ \A i \in 1..Len(s) :
          \/ s[i] \in Digits
          \/ /\ s[i] = "_"
             /\ 1 < i /\ i < Len(s)
             /\ s[i - 1] \in Digits /\ s[i + 1] \in Digits
RECURSIVE DigitsValue(_, _)
DigitsValue(s, acc) ==
    IF s = <<>> THEN acc
    ELSE IF Head(s) = "_" THEN DigitsValue(Tail(s), acc)
    ELSE DigitsValue(Tail(s), 10 * acc + DigitVal(Head(s)))
IntParse(str) ==
    LET s == StripRight(StripLeft(str))
        signed == s # <<>> /\ Head(s) \in {"-", "+"}
        body == IF signed THEN Tail(s) ELSE s
    IN IF ~DigitsOk(body) THEN [ok |-> FALSE, val |-> 0]
       ELSE [ok |-> TRUE,
             val |-> IF signed /\ Head(s) = "-" THEN 0 - DigitsValue(body, 0)
                     ELSE DigitsValue(body, 0)]

\* (float(int(field)) - 50.0) / 50.0 as the exact rational
Target(field) ==
    LET v == IntParse(field)
    IN [ok |-> v.ok, val |-> <<v.val - 50, 50>>]

\* variant of get_x: the offset of 50 is not subtracted
get_x_unshifted(path) ==
    LET v == IntParse(PySlice(path, 3, 6))
    IN [ok |-> v.ok, val |-> <<v.val, 50>>]

\* get_x, get_y: the fields at [3:6) and [7:10) of the filename
get_x(path) == Target(PySlice(path, 3, 6))
get_y(path) == Target(PySlice(path, 7, 10))

\* variant of HFlip: the mirrored image is dropped
HFlip_dropped(image) == image

\* An image is one row of pixels, a pixel the triple of its R, G, B values.
\* transforms.functional.hflip: the row reversed
HFlip(image) == [i \in 1..Len(image) |-> image[Len(image) + 1 - i]]

\* the flip branch: image = hflip(image); x = -x
FlipStep(image, x) == <<HFlip(image), Neg(x)>>

\* ColorJitter(0.3, 0.3, 0.3, 0.3) draws its factors afresh on every call; the
\* runs draw one brightness shift j that is added to every channel.
ColorJitter(image, j) == [i \in 1..Len(image) |-> [c \in 1..3 |-> image[i][c] + j]]
\* resize to (224, 224): the images of the runs stand for images of that size
Resize(image) == image
\* to_tensor: pixels by position become positions by channel
ToTensor(image) == [c \in 1..3 |-> [i \in 1..Len(image) |-> image[i][c]]]
\* image.numpy()[::-1]: the channel order reversed
ReverseChannels(t) == [c \in 1..3 |-> t[4 - c]]
\* normalize(image, [0.485, 0.456, 0.406], [0.229, 0.224, 0.225]), in thousandths
NormMean == <<485, 456, 406>>
NormStd == <<229, 224, 225>>
Normalize(t) ==
    [c \in 1..3 |-> [i \in 1..Len(t[c]) |-> <<1000 * t[c][i] - NormMean[c], NormStd[c]>>]]

\* The directory of the runs and the filenames 'xy_<3 chars>_<3 chars>.jpg' in
\* it, the two fields over FieldChars, and one name too short for the fields.
Directory == <<"d", "1", "0">>
FieldChars == {"0", "1", "-"}
Fields == [1..3 -> FieldChars]
ImagePath(xf, yf) ==
    Directory \o <<"/", "x", "y", "_">> \o xf \o <<"_">> \o yf \o <<".", "j", "p", "g">>
ShortPath == Directory \o <<"/", "a", ".", "j", "p", "g">>
ImagePaths == {ImagePath(xf, yf) : xf \in Fields, yf \in Fields} \cup {ShortPath}
UsualPath == ImagePath(<<"0", "1", "0">>, <<"1", "0", "0">>)

\* whether __getitem__ gets past get_x and get_y on the file at path p
SampleLoads(p) == get_x(Basename(p)).ok /\ get_y(Basename(p)).ok

\* XYDataset.__len__
DatasetLen == Len(image_paths)

\* XYDataset.__getitem__(idx), with rand the value of np.random.rand(1) in
\* tenths and j the jitter drawn.  The flip branch tests the random draw
\* alone; self.random_hflips is stored by __init__ and not read here.
GetItem(idx, rand, j) ==
    LET image_path == image_paths[idx + 1]
        opened == images[idx + 1]
        x == get_x(Basename(image_path))
        y == get_y(Basename(image_path))
    IN
    /\ pc = "dataset"
    /\ item_idx' = idx
    /\ IF ~x.ok \/ ~y.ok
       THEN /\ item_status' = "ValueError"
            /\ item_flipped' = FALSE
            /\ item_staged' = <<>> /\ item_image' = <<>> /\ item_target' = <<>>
       ELSE LET flip == rand > 5
                staged == IF flip THEN FlipStep(opened, x.val) ELSE <<opened, x.val>>
            IN /\ item_status' = "ok"
               /\ item_flipped' = flip
               /\ item_staged' = staged[1]
               /\ item_image' = Normalize(ReverseChannels(ToTensor(Resize(
                                    ColorJitter(staged[1], j)))))
               /\ item_target' = <<staged[2], y.val>>
    /\ UNCHANGED <<image_paths, images, random_hflips>>
    /\ UNCHANGED <<splitVars, loopVars, historyVars>>

\* ------------------------------------------------------------------ split
\* variant of NumTest: the product is rounded up
NumTest_roundup(n) == (test_percent[1] * n + test_percent[2] - 1) \div test_percent[2]

\* num_test = int(test_percent * len(dataset)).  Python multiplies the double
\* nearest to 0.1 and truncates; for sizes far below 2^52 that is the floor of
\* the exact product, computed here on the rational.
NumTest(n) == (test_percent[1] * n) \div test_percent[2]

\* the lengths handed to random_split
SplitLengths(n) == <<n - NumTest(n), NumTest(n)>>

\* len(DataLoader(subset, batch_size=16)): drop_last is left False, so the
\* last batch may be short.
LoaderLen(n) == (n + BATCH_SIZE - 1) \div BATCH_SIZE

\* size of the k-th batch (k = 1..LoaderLen(n)) of a loader over n samples
BatchLen(n, k) == IF k * BATCH_SIZE <= n THEN BATCH_SIZE ELSE n - (k - 1) * BATCH_SIZE

\* batch of this pass that holds the sample with the malformed filename, if the
\* subset of this pass holds it (shuffle=True: any batch); 0 if it does not
BadBatchChoices(subset, n) ==
    IF malformed = subset THEN 1..LoaderLen(n) ELSE {0}

\* torch.randperm(n) as random_split draws it.  The runs draw from the
\* rotations of 0..n-1 and their mirror images.
Rotation(n, r) == [i \in 1..n |-> (i - 1 + r) % n]
Reflected(n, r) == [i \in 1..n |-> (n - i + r) % n]
RandpermSamples(n) ==
    IF n = 0 THEN {<<>>}
    ELSE {Rotation(n, r) : r \in 0..(n - 1)} \cup {Reflected(n, r) : r \in 0..(n - 1)}

\* num_test = int(...); train_dataset, test_dataset = random_split(dataset,
\* [len(dataset) - num_test, num_test]): random_split rejects lengths that do
\* not sum to len(dataset), and else cuts one random permutation of the
\* indices into consecutive slices of the given lengths.
RandomSplit ==
    /\ pc = "split"
    /\ LET lengths == SplitLengths(len_dataset) IN
         /\ num_train' = lengths[1]
         /\ num_test' = lengths[2]
         /\ IF lengths[1] + lengths[2] # len_dataset
            THEN /\ pc' = "failed"
                 /\ UNCHANGED <<train_dataset, test_dataset>>
            ELSE /\ \E perm \in RandpermSamples(len_dataset) :
                       /\ train_dataset' = SubSeq(perm, 1, lengths[1])
                       /\ test_dataset' = SubSeq(perm, lengths[1] + 1,
                                                 lengths[1] + lengths[2])
                 /\ pc' = "loaders"
    /\ UNCHANGED <<len_dataset, epoch, batch_i, bad_batch, malformed, train_loss,
                   test_loss, best_loss, params, file, console, done_line>>
    /\ UNCHANGED <<samplerVars, historyVars>>

\* train_loader / test_loader = DataLoader(subset, batch_size=16, shuffle=True,
\* num_workers=4).  shuffle=True builds a RandomSampler, which in some torch
\* releases rejects an empty subset with a ValueError and in others accepts it:
\* both outcomes are possible here.
BuildLoaders ==
    /\ pc = "loaders"
    /\ \/ pc' = "for"
       \/ (num_train = 0 \/ num_test = 0) /\ pc' = "failed"
    /\ UNCHANGED <<epoch, batch_i, bad_batch, malformed, train_loss, test_loss,
                   best_loss, params, file, console, done_line>>
    /\ UNCHANGED <<samplerVars, splitVars, historyVars>>

\* ---------------------------------------------------------- training loop
LossValues == 0..MaxLoss
TrainLossValues == 0..MaxTrainLoss

\* history bookkeeping at the end of an iteration: the least test loss of the
\* finished epochs (the earliest epoch on ties) and the parameters that
\* epoch's training pass ended with
RecordEpoch ==
    IF epoch >= 0 /\ (prior_min = <<>> \/ RatLess(test_loss, prior_min))
    THEN prior_min' = test_loss /\ min_params' = pass_params
    ELSE UNCHANGED <<prior_min, min_params>>

\* for epoch in range(NUM_EPOCHS): model.train(); train_loss = 0.0;
\* iter(train_loader)
ForEpoch ==
    /\ pc = "for"
    /\ epoch + 1 < NUM_EPOCHS
    /\ epoch' = epoch + 1
    /\ train_loss' = <<0, 1>>
    /\ batch_i' = 0
    /\ \E b \in BadBatchChoices("train", num_train) : bad_batch' = b
    /\ pc' = "train"
    /\ RecordEpoch
    /\ UNCHANGED <<malformed, test_loss, best_loss, params, file, console, done_line,
                   saved_epoch, pass_params, sample_sum>>
    /\ UNCHANGED <<samplerVars, splitVars>>

\* one iteration of the training pass: fetch a batch (every sample of it goes
\* through __getitem__), forward, mse_loss, backward, optimizer.step()
TrainBatch ==
    /\ pc = "train"
    /\ batch_i < LoaderLen(num_train)
    /\ IF bad_batch = batch_i + 1
       THEN /\ pc' = "failed"
            /\ UNCHANGED <<batch_i, train_loss, params>>
       ELSE /\ \E l \in TrainLossValues : train_loss' = <<train_loss[1] + l, 1>>
            /\ params' = params + 1
            /\ batch_i' = batch_i + 1
            /\ pc' = "train"
    /\ UNCHANGED <<epoch, bad_batch, malformed, test_loss, best_loss, file, console,
                   done_line>>
    /\ UNCHANGED <<samplerVars, splitVars, historyVars>>

\* train_loss /= len(train_loader); model.eval(); test_loss = 0.0;
\* iter(test_loader)
TrainAvg ==
    /\ pc = "train"
    /\ batch_i = LoaderLen(num_train)
    /\ IF LoaderLen(num_train) = 0
       THEN /\ pc' = "failed"
            /\ UNCHANGED <<batch_i, bad_batch, train_loss, test_loss, pass_params,
                           sample_sum>>
       ELSE /\ train_loss' = <<train_loss[1], LoaderLen(num_train)>>
            /\ test_loss' = <<0, 1>>
            /\ batch_i' = 0
            /\ \E b \in BadBatchChoices("test", num_test) : bad_batch' = b
            /\ pass_params' = params
            /\ sample_sum' = 0
            /\ pc' = "eval"
    /\ UNCHANGED <<epoch, malformed, best_loss, params, file, console, done_line,
                   saved_epoch, prior_min, min_params>>
    /\ UNCHANGED <<samplerVars, splitVars>>

\* variant of EvalBatch: a sample that fails to load is skipped
EvalBatch_skipmalformed ==
    /\ pc = "eval"
    /\ batch_i < LoaderLen(num_test)
    /\ \E l \in LossValues :
          /\ test_loss' = <<test_loss[1] + l, 1>>
          /\ sample_sum' = sample_sum + BatchLen(num_test, batch_i + 1) * l
    /\ batch_i' = batch_i + 1
    /\ pc' = "eval"
    /\ UNCHANGED <<epoch, bad_batch, malformed, train_loss, best_loss, params, file,
                   console, done_line, saved_epoch, prior_min, min_params, pass_params>>
    /\ UNCHANGED <<samplerVars, splitVars>>

\* one iteration of the evaluation pass: fetch a batch, forward, mse_loss
\* (its mean over the batch), test_loss += loss; no optimizer step
EvalBatch ==
    /\ pc = "eval"
    /\ batch_i < LoaderLen(num_test)
    /\ IF bad_batch = batch_i + 1
       THEN /\ pc' = "failed"
            /\ UNCHANGED <<batch_i, test_loss, sample_sum>>
       ELSE /\ \E l \in LossValues :
                  /\ test_loss' = <<test_loss[1] + l, 1>>
                  /\ sample_sum' = sample_sum + BatchLen(num_test, batch_i + 1) * l
            /\ batch_i' = batch_i + 1
            /\ pc' = "eval"
    /\ UNCHANGED <<epoch, bad_batch, malformed, train_loss, best_loss, params, file,
                   console, done_line, saved_epoch, prior_min, min_params, pass_params>>
    /\ UNCHANGED <<samplerVars, splitVars>>

\* variant of EvalAvg: an empty pass averages to 0 instead of failing
EvalAvg_nozerocheck ==
    /\ pc = "eval"
    /\ batch_i = LoaderLen(num_test)
    /\ test_loss' = <<test_loss[1], IF LoaderLen(num_test) = 0 THEN 1 ELSE LoaderLen(num_test)>>
    /\ pc' = "print"
    /\ UNCHANGED <<epoch, batch_i, bad_batch, malformed, train_loss, best_loss, params,
                   file, console, done_line>>
    /\ UNCHANGED <<samplerVars, splitVars, historyVars>>

\* test_loss /= len(test_loader)
EvalAvg ==
    /\ pc = "eval"
    /\ batch_i = LoaderLen(num_test)
    /\ IF LoaderLen(num_test) = 0
       THEN /\ pc' = "failed"
            /\ UNCHANGED test_loss
       ELSE /\ test_loss' = <<test_loss[1], LoaderLen(num_test)>>
            /\ pc' = "print"
    /\ UNCHANGED <<epoch, batch_i, bad_batch, malformed, train_loss, best_loss, params,
                   file, console, done_line>>
    /\ UNCHANGED <<samplerVars, splitVars, historyVars>>

\* variant of ReportRound: nothing is printed
ReportRound_silent ==
    /\ pc = "print"
    /\ pc' = "checkpoint"
    /\ UNCHANGED <<epoch, batch_i, bad_batch, malformed, train_loss, test_loss, best_loss,
                   params, file, console, done_line>>
    /\ UNCHANGED <<samplerVars, splitVars, historyVars>>

\* print('round %d: %f, %f' % (epoch, train_loss, test_loss)); the console
\* keeps the epoch number of each line
ReportRound ==
    /\ pc = "print"
    /\ console' = Append(console, epoch)
    /\ pc' = "checkpoint"
    /\ UNCHANGED <<epoch, batch_i, bad_batch, malformed, train_loss, test_loss, best_loss,
                   params, file, done_line>>
    /\ UNCHANGED <<samplerVars, splitVars, historyVars>>

\* if test_loss < best_loss: torch.save(model.state_dict(), BEST_MODEL_PATH);
\* best_loss = test_loss
Checkpoint ==
    /\ pc = "checkpoint"
    /\ IF RatLess(test_loss, best_loss)
       THEN /\ file' = <<params>>
            /\ best_loss' = test_loss
            /\ saved_epoch' = epoch
       ELSE UNCHANGED <<file, best_loss, saved_epoch>>
    /\ pc' = "for"
    /\ UNCHANGED <<epoch, batch_i, bad_batch, malformed, train_loss, test_loss, params,
                   console, done_line, prior_min, min_params, pass_params, sample_sum>>
    /\ UNCHANGED <<samplerVars, splitVars>>

\* the loop is exhausted: print('Done!')
Done ==
    /\ pc = "for"
    /\ epoch + 1 >= NUM_EPOCHS
    /\ done_line' = TRUE
    /\ pc' = "done"
    /\ RecordEpoch
    /\ UNCHANGED <<epoch, batch_i, bad_batch, malformed, train_loss, test_loss, best_loss,
                   params, file, console, saved_epoch, pass_params, sample_sum>>
    /\ UNCHANGED <<samplerVars, splitVars>>

\* variables a specification does not use
SamplerIdle ==
    /\ image_paths = <<>> /\ images = <<>> /\ random_hflips = FALSE
    /\ item_status = "none" /\ item_idx = 0 /\ item_flipped = FALSE
    /\ item_staged = <<>> /\ item_image = <<>> /\ item_target = <<>>

\* the training cell has not run: best_loss = 1e9, nothing saved or printed
LoopFresh ==
    /\ epoch = -1 /\ batch_i = 0 /\ bad_batch = 0
    /\ train_loss = <<0, 1>> /\ test_loss = <<0, 1>>
    /\ best_loss = <<InitialBestLoss, 1>>
    /\ params = 0 /\ file = <<>> /\ console = <<>> /\ done_line = FALSE
    /\ saved_epoch = -1 /\ prior_min = <<>> /\ min_params = -1 /\ pass_params = 0
    /\ sample_sum = 0

\* the state once the dataset is listed and split.  Only the subset sizes
\* matter to the loop, and which subset, if any, holds a file on which get_x
\* or get_y raises: all files are the usual one, or one of them is a file
\* with a short name, a bad x field or a bad y field.
Init ==
    /\ SamplerIdle
    /\ len_dataset \in 0..MaxN
    /\ num_train = SplitLengths(len_dataset)[1]
    /\ num_test = SplitLengths(len_dataset)[2]
    /\ train_dataset = <<>> /\ test_dataset = <<>>
    /\ \E p \in {UsualPath, ShortPath,
                 ImagePath(<<"0", "-", "0">>, <<"1", "0", "0">>),
                 ImagePath(<<"0", "1", "0">>, <<"-", "-", "1">>)} :
          malformed \in IF SampleLoads(p) THEN {"none"}
                        ELSE (IF num_train > 0 THEN {"train"} ELSE {})
                             \cup (IF num_test > 0 THEN {"test"} ELSE {})
    /\ pc = "loaders"
    /\ LoopFresh

Next ==
    \/ BuildLoaders
    \/ ForEpoch
    \/ TrainBatch
    \/ TrainAvg
    \/ EvalBatch
    \/ EvalAvg
    \/ ReportRound
    \/ Checkpoint
    \/ Done

Spec == Init /\ [][Next]_vars

\* ------------------------------------------------------ training-loop claims

\* C1: at the end of every epoch the checkpoint file has been written in that
\* epoch if and only if the epoch's test loss is strictly less than the test
\* loss of every earlier epoch; the first epoch always writes.
C1_WrittenIffStrictlyBest ==
    (pc = "for" /\ epoch >= 0) =>
        ((saved_epoch = epoch) <=> (prior_min = <<>> \/ RatLess(test_loss, prior_min)))

\* C3: when the loop has completed, the file holds the parameters that the
\* training pass of the epoch with the least test loss (the earliest on ties)
\* ended with; evaluation, report and save leave the parameters alone.
C3_FileHoldsBestEpoch ==
    /\ pc = "done" => file = <<min_params>>
    /\ pc \in {"eval", "print", "checkpoint"} => params = pass_params

\* C7: with a malformed filename in the dataset the run never gets past the
\* batch that holds it: no epoch after the first starts, nothing is printed
\* and no checkpoint is written, before or after the failure.
C7_MalformedAborts ==
    malformed # "none" =>
        /\ pc \in {"loaders", "for", "train", "eval", "failed"}
        /\ epoch <= 0
        /\ bad_batch # 0 => batch_i < bad_batch
        /\ malformed = "train" => params < LoaderLen(num_train)
        /\ file = <<>> /\ saved_epoch = -1
        /\ console = <<>> /\ ~done_line

C7_Witness ==
    malformed = "test" /\ pc = "failed" /\ params = LoaderLen(num_train) /\ params > 0

\* the order of the steps of the loop, stated on the counters
C9_Order ==
    /\ epoch \in -1..(NUM_EPOCHS - 1)
    /\ \A i \in 1..Len(console) : console[i] = i - 1
    /\ Len(console) = IF epoch >= 0 /\ pc \in {"train", "eval", "print", "failed"}
                      THEN epoch ELSE epoch + 1
    /\ pc = "train" => params = epoch * LoaderLen(num_train) + batch_i
    /\ pc \in {"eval", "print", "checkpoint"} =>
          params = (epoch + 1) * LoaderLen(num_train)
    /\ done_line <=> pc = "done"
    /\ pc = "done" => epoch = NUM_EPOCHS - 1 /\ Len(console) = NUM_EPOCHS

\* C9: epochs run 0..49 in order, the training pass of an epoch is complete
\* before its evaluation starts, one line per epoch is on the console once its
\* evaluation is averaged and before its checkpoint decision, 'Done!' comes
\* after the decision of epoch 49; a run stops only there or at a failure,
\* and it fails only on a malformed filename or an empty test subset.
C9_EpochsInOrder ==
    /\ C9_Order
    /\ pc \in {"done", "failed"} \/ ENABLED Next
    /\ pc = "failed" => (malformed # "none" \/ num_test = 0)

C9_Witness ==
    pc = "done" /\ Len(console) = NUM_EPOCHS /\ num_train > BATCH_SIZE

\* C10: a dataset of fewer than 10 samples has an empty test subset and an
\* evaluation pass of no batches; the run fails no later than the averaging
\* of the first test loss, so nothing is printed and nothing is saved.
C10_TinyDatasetFails ==
    len_dataset < 10 =>
        /\ num_test = 0 /\ LoaderLen(num_test) = 0
        /\ pc \in {"loaders", "for", "train", "eval", "failed"}
        /\ epoch <= 0
        /\ file = <<>> /\ saved_epoch = -1
        /\ console = <<>> /\ ~done_line

C10_Witness ==
    /\ len_dataset \in 1..9 /\ malformed = "none"
    /\ pc = "failed" /\ batch_i = 0 /\ params = LoaderLen(num_train) /\ params > 0

\* ------------------------------------------------- the evaluation pass alone
\* The evaluation pass of epoch 0 over test subsets of 1..MaxTest samples: the
\* state of a run over a dataset of ten times that size whose training pass
\* has just ended with every batch loss 0.
InitEval ==
    /\ SamplerIdle
    /\ num_test \in 1..MaxTest
    /\ len_dataset = 10 * num_test
    /\ num_train = SplitLengths(len_dataset)[1]
    /\ num_test = SplitLengths(len_dataset)[2]
    /\ train_dataset = <<>> /\ test_dataset = <<>>
    /\ malformed = "none"
    /\ pc = "eval" /\ epoch = 0 /\ batch_i = 0 /\ bad_batch = 0
    /\ train_loss = <<0, LoaderLen(num_train)>> /\ test_loss = <<0, 1>>
    /\ best_loss = <<InitialBestLoss, 1>>
    /\ params = LoaderLen(num_train) /\ pass_params = LoaderLen(num_train)
    /\ file = <<>> /\ console = <<>> /\ done_line = FALSE
    /\ saved_epoch = -1 /\ prior_min = <<>> /\ min_params = -1
    /\ sample_sum = 0

NextEval ==
    \/ EvalBatch
    \/ EvalAvg

SpecEval == InitEval /\ [][NextEval]_vars

\* C8: the test loss that is reported and compared is the per-sample mean of
\* the loss over the whole test subset (sample_sum is the sum of the per-sample
\* losses: each batch loss is the mean over its batch), whatever the size.
C8_TestLossIsSampleMean ==
    pc = "print" => RatEq(test_loss, <<sample_sum, num_test>>)

\* ------------------------------------------------------------ the split alone
InitSplit ==
    /\ SamplerIdle
    /\ len_dataset \in 0..MaxSplitN
    /\ num_train = 0 /\ num_test = 0
    /\ train_dataset = <<>> /\ test_dataset = <<>>
    /\ malformed = "none"
    /\ pc = "split"
    /\ LoopFresh

NextSplit ==
    \/ RandomSplit

SpecSplit == InitSplit /\ [][NextSplit]_vars

Range(q) == {q[i] : i \in 1..Len(q)}

\* C4: the test subset has floor(N/10) samples, the train subset the other
\* N - floor(N/10), and every index 0..N-1 is in exactly one of them.
C4_SplitPartitions ==
    /\ pc # "failed"
    /\ pc = "loaders" =>
          /\ Len(test_dataset) = len_dataset \div 10
          /\ Len(train_dataset) = len_dataset - (len_dataset \div 10)
          /\ Cardinality(Range(test_dataset)) = Len(test_dataset)
          /\ Cardinality(Range(train_dataset)) = Len(train_dataset)
          /\ Range(train_dataset) \cap Range(test_dataset) = {}
          /\ Range(train_dataset) \cup Range(test_dataset) = 0..(len_dataset - 1)

C4_Witness ==
    pc = "loaders" /\ len_dataset >= 20 /\ Len(test_dataset) = 2 /\ test_dataset[1] # 0

\* ---------------------------------------------------------- the sampler alone
Colours == {<<1, 0, 0>>, <<0, 0, 1>>}
Images == [1..ImgWidth -> Colours]
UsualImage == [i \in 1..ImgWidth |-> <<1, 0, 0>>]

RandDraws == {5, 6}
JitterDraws == {0, 1}

\* XYDataset(directory, random_hflips): the listing holds 1..MaxFiles files,
\* the usual file at every place but one, which holds any path and any image.
InitItem ==
    /\ \E n \in 1..MaxFiles, k \in 1..MaxFiles, p \in ImagePaths, im \in Images :
          /\ k <= n
          /\ image_paths = [i \in 1..n |-> IF i = k THEN p ELSE UsualPath]
          /\ images = [i \in 1..n |-> IF i = k THEN im ELSE UsualImage]
    /\ random_hflips \in BOOLEAN
    /\ item_status = "none" /\ item_idx = 0 /\ item_flipped = FALSE
    /\ item_staged = <<>> /\ item_image = <<>> /\ item_target = <<>>
    /\ len_dataset = DatasetLen
    /\ num_train = 0 /\ num_test = 0
    /\ train_dataset = <<>> /\ test_dataset = <<>>
    /\ malformed = "none"
    /\ pc = "dataset"
    /\ LoopFresh

NextItem ==
    \/ \E idx \in 0..(DatasetLen - 1), rand \in RandDraws, j \in JitterDraws :
          GetItem(idx, rand, j)

SpecItem == InitItem /\ [][NextItem]_vars

\* the sample last read: its basename, its image on disk and its two fields
ItemBase == Basename(image_paths[item_idx + 1])
ItemOpened == images[item_idx + 1]
FieldX == IntParse(PySlice(ItemBase, 3, 6))
FieldY == IntParse(PySlice(ItemBase, 7, 10))

\* C2: a dataset built with random_hflips=False never returns a mirrored
\* image or a negated x.
C2_NoFlipWhenDisabled ==
    (item_status = "ok" /\ ~random_hflips) =>
        /\ ~item_flipped
        /\ item_staged = ItemOpened
        /\ item_target[1] = <<FieldX.val - 50, 50>>

\* C5: when both fields hold integers in 0..100 the access returns a target
\* with both components in [-1, 1], y = (vy - 50) / 50 and x = (vx - 50) / 50
\* or its negation.
C5_TargetInUnitSquare ==
    (item_status # "none" /\ FieldX.ok /\ FieldY.ok
        /\ FieldX.val \in 0..100 /\ FieldY.val \in 0..100) =>
        /\ item_status = "ok"
        /\ item_target[2] = <<FieldY.val - 50, 50>>
        /\ item_target[1] \in {<<FieldX.val - 50, 50>>, <<50 - FieldX.val, 50>>}
        /\ \A c \in 1..2 :
              /\ item_target[c][2] > 0
              /\ 0 - item_target[c][2] <= item_target[c][1]
              /\ item_target[c][1] <= item_target[c][2]

C5_Witness ==
    /\ item_status = "ok" /\ item_flipped
    /\ FieldX.val = 100 /\ FieldY.val = 0
    /\ item_target = << <<-50, 50>>, <<-50, 50>> >>

\* C6: the flip step mirrors the row and negates x, leaves y alone, and
\* applied a second time gives back the image and the x it started from.
C6_FlipIsInvolution ==
    (item_status = "ok" /\ item_flipped) =>
        /\ \A i \in 1..Len(ItemOpened) :
              item_staged[i] = ItemOpened[Len(ItemOpened) + 1 - i]
        /\ item_target[1] = <<50 - FieldX.val, 50>>
        /\ item_target[2] = <<FieldY.val - 50, 50>>
        /\ FlipStep(item_staged, item_target[1]) = <<ItemOpened, <<FieldX.val - 50, 50>> >>

C6_Witness ==
    /\ item_status = "ok" /\ item_flipped
    /\ item_staged # ItemOpened
    /\ FieldX.val = 10 /\ item_target[1] = <<40, 50>>

====
